---- MODULE Spec2Model ----
(***************************************************************************)
(* Model of src/parse.py (Wanderlog to KML converter): one run of main().  *)
(*                                                                         *)
(* Strings are sequences of one-character strings, so that slicing         *)
(* (date[8:10]), str.replace, re.sub and path joining are computed the way *)
(* the code computes them.  JSON values that the code inspects by type are *)
(* records tagged with their kind.  The payload is revealed to the model   *)
(* as the code's loops reach it: each loop iteration draws the next        *)
(* expense, section or block from a bounded set.                           *)
(***************************************************************************)
EXTENDS Integers, Sequences, FiniteSets

VARIABLES
    pc,              \* position of main(): which statement runs next
    args,            \* parse_arguments(): [split, output]
    payload,         \* shape of the embedded JSON object (which keys exist)
    title,           \* extract_data: title
    block_to_date,   \* extract_data: dict blockId -> associatedDate, as a set of pairs
    section,         \* extract_data: loop variable of the section loop
    block,           \* extract_data: loop variable of the block loop
    appended,        \* whether the last iteration of the block loop reached places.append
    places,          \* extract_data / main: list of place dicts
    origin,          \* history: traversal position of the block each place came from
    by_date,         \* main: insertion-ordered dict date_key -> places, as a sequence
    emissions,       \* calls of create_kml so far: path, arguments, document, write result
    generated_files, \* main: generated_files
    console,         \* lines printed so far (by kind)
    outcome,         \* how the run ended ("none" while it runs)
    nExpenses, nSections, nBlocks   \* how much of the payload has been traversed

vars == <<pc, args, payload, title, block_to_date, section, block, appended,
          places, origin, by_date, emissions, generated_files, console,
          outcome, nExpenses, nSections, nBlocks>>

----------------------------------------------------------------------------
(* Bounds of the model *)

MaxExpenses == 1
MaxSections == 2
MaxBlocks == 2

----------------------------------------------------------------------------
(* Strings *)

EmptyStr == << >>
D1 == <<"2","0","2","4","-","0","1","-","0","5">>
D1u == <<"2","0","2","4","_","0","1","_","0","5">>
NO_DATE == <<"n","o","_","d","a","t","e">>
DefaultTitle == <<"M","y"," ","T","r","i","p">>
PageTitle == <<"R","o","m","e">>
OutputArg == <<"O","u","t">>
OutDir == <<"/","o">>

Min(a, b) == IF a < b THEN a ELSE b

\* Python s[a:b] for 0 <= a <= b: clamps to the length of s
Slice(s, a, b) == SubSeq(s, Min(a, Len(s)) + 1, Min(b, Len(s)))

\* str.replace(old, new) for one-character old and new
Replace(s, old, new) == [i \in DOMAIN s |-> IF s[i] = old THEN new ELSE s[i]]

UpperToLower == {<<"M","m">>, <<"T","t">>, <<"R","r">>, <<"O","o">>}

LowerChar(c) ==
    IF \E p \in UpperToLower : p[1] = c
    THEN (CHOOSE p \in UpperToLower : p[1] = c)[2]
    ELSE c

\* characters of the model's alphabet that [^\w-] matches
NonWordChars == {" ", ".", "/", "[", "]"}

\* re.sub(r'[^\w-]', '_', s).lower()
Slug(s) == [i \in DOMAIN s |->
              LowerChar(IF s[i] \in NonWordChars THEN "_" ELSE s[i])]

\* os.path.join(outdir, name) for a relative name
PathJoin(dir, name) == dir \o <<"/">> \o name

----------------------------------------------------------------------------
(* JSON values of the payload *)

\* a value read where the code expects a date: a missing key, a JSON string,
\* or a non-zero JSON number
Absent == [k |-> "absent", s |-> EmptyStr]
Str(s) == [k |-> "str", s |-> s]
NumDate == [k |-> "num", s |-> EmptyStr]

SectionDates == {Absent, Str(D1), NumDate}
ExpenseDates == {Absent, Str(D1u)}

\* a value read where the code expects a coordinate
Num(v) == [k |-> "num", v |-> v]
NaN == [k |-> "nan", v |-> 0]
NotANumber == [k |-> "str", v |-> 0]
\* <<lat, lng>> of place.geometry.location
Locations == {<<Num(45), Num(10)>>, <<Num(91), Num(181)>>, <<NaN, Num(10)>>,
              <<NotANumber, Num(10)>>, <<Num(45), NotANumber>>}

NoId == 0
Ids == {1, 2}
NoName == EmptyStr
Names == {<<"A">>}

Expenses == [blockId : {1, NoId}, associatedDate : ExpenseDates]

NoSection == [hasBlocks |-> FALSE, date |-> Absent]
Sections == [hasBlocks : {TRUE}, date : SectionDates] \cup {NoSection}

\* a block of a section: type is block.get('type'), hasPlace is 'place' in block,
\* hasGeometry is whether place.geometry.location holds lat and lng
PlaceBlocks == { [type |-> "place", hasPlace |-> TRUE, id |-> i, name |-> n,
                  hasGeometry |-> TRUE, lat |-> l[1], lng |-> l[2]] :
                    i \in Ids \cup {NoId}, n \in Names \cup {NoName}, l \in Locations }
NoGeometryBlocks == [type : {"place"}, hasPlace : {TRUE}, id : {1},
                     name : Names \cup {NoName}, hasGeometry : {FALSE},
                     lat : {NotANumber}, lng : {NotANumber}]
OtherBlocks == [type : {"place", "note"}, hasPlace : {FALSE}, id : {1},
                name : {NoName}, hasGeometry : {FALSE},
                lat : {NotANumber}, lng : {NotANumber}]
Blocks == PlaceBlocks \cup NoGeometryBlocks \cup OtherBlocks
NoBlock == [type |-> "none", hasPlace |-> FALSE, id |-> NoId, name |-> NoName,
            hasGeometry |-> FALSE, lat |-> NotANumber, lng |-> NotANumber]

\* shape of the page held by extract_data (loaded): whether the title and the
\* assignment are found, whether the object parses, and which keys exist
Payloads == { p \in [loaded : {TRUE}, titleMatch : BOOLEAN, jsonMatch : BOOLEAN, validJson : BOOLEAN,
                     tripPlanStore : BOOLEAN, data : BOOLEAN, tripPlan : BOOLEAN,
                     itinerary : BOOLEAN, budget : BOOLEAN, expenses : BOOLEAN,
                     sections : BOOLEAN] :
                /\ p.validJson => p.jsonMatch
                /\ p.tripPlanStore => p.validJson
                /\ p.data => p.tripPlanStore
                /\ p.tripPlan => p.data
                /\ p.itinerary => p.tripPlan
                /\ p.budget => p.itinerary
                /\ p.expenses => p.budget
                /\ p.sections => p.itinerary }
NoPayload == [loaded |-> FALSE, titleMatch |-> FALSE, jsonMatch |-> FALSE, validJson |-> FALSE,
              tripPlanStore |-> FALSE, data |-> FALSE, tripPlan |-> FALSE,
              itinerary |-> FALSE, budget |-> FALSE, expenses |-> FALSE,
              sections |-> FALSE]

----------------------------------------------------------------------------
(* extract_data *)

\* dict.get(key, default) on a dict kept as a set of <<key, value>> pairs
DictHas(d, key) == \E e \in d : e[1] = key
DictGet(d, key, default) ==
    IF DictHas(d, key) THEN (CHOOSE e \in d : e[1] = key)[2] ELSE default

\* d[key] = value
DictSet(d, key, value) == {e \in d : e[1] # key} \cup {<<key, value>>}

\* bool(date): the empty string is falsy, a non-empty string or non-zero number truthy
Truthy(date) == date.k = "num" \/ (date.k = "str" /\ date.s # EmptyStr)

\* isinstance(x, (int, float)): NaN is a float
IsIntOrFloat(x) == x.k \in {"num", "nan"}

\* block.get('type') == 'place' and 'place' in block
Qualifies(b) == b.type = "place" /\ b.hasPlace

\* section.get('date', '')
SectionDate(sec) == IF sec.date.k = "absent" THEN Str(EmptyStr) ELSE sec.date

\* a lookup that prefers the section's date to the table's entry
EffectiveDate_SectionFirst(b, sec, tbl) ==
    IF sec.date.k # "absent" THEN sec.date ELSE DictGet(tbl, b.id, Str(EmptyStr))

\* block_to_date.get(block['id'], section.get('date', ''))
EffectiveDate(b, sec, tbl) == DictGet(tbl, b.id, SectionDate(sec))

\* f"{date[8:10]}.{date[5:7]}" if date else ""
DayMonth(date) ==
    IF Truthy(date) THEN Slice(date.s, 8, 10) \o <<".">> \o Slice(date.s, 5, 7)
    ELSE EmptyStr

\* a try body that appends a place whose name is missing
TryBody_KeepsNameless(b, sec, tbl) ==
    IF b.id = NoId THEN "KeyError"
    ELSE IF Truthy(EffectiveDate(b, sec, tbl)) /\ EffectiveDate(b, sec, tbl).k # "str"
         THEN "TypeError"
    ELSE IF ~b.hasGeometry THEN "KeyError"
    ELSE IF ~IsIntOrFloat(b.lat) \/ ~IsIntOrFloat(b.lng) THEN "continue"
    ELSE "append"

\* how the try body of one block ends: an exception the except clause catches,
\* the continue after the isinstance test, or the append
TryBody(b, sec, tbl) ==
    IF b.id = NoId THEN "KeyError"
    ELSE IF Truthy(EffectiveDate(b, sec, tbl)) /\ EffectiveDate(b, sec, tbl).k # "str"
         THEN "TypeError"
    ELSE IF ~b.hasGeometry THEN "KeyError"
    ELSE IF ~IsIntOrFloat(b.lat) \/ ~IsIntOrFloat(b.lng) THEN "continue"
    ELSE IF b.name = NoName THEN "KeyError"
    ELSE "append"

\* the dict appended to places
PlaceOf(b, sec, tbl) ==
    [name |-> b.name, lat |-> b.lat, lng |-> b.lng,
     date |-> EffectiveDate(b, sec, tbl),
     day_month |-> DayMonth(EffectiveDate(b, sec, tbl))]

\* places after one iteration of the block loop
AfterBlock(ps, b, sec, tbl) ==
    IF Qualifies(b) /\ TryBody(b, sec, tbl) = "append"
    THEN Append(ps, PlaceOf(b, sec, tbl))
    ELSE ps

\* how the head of extract_data ends: the ValueError it raises, the KeyError
\* of an unguarded subscript, or the start of the expense loop
ExtractHead(p) ==
    IF ~p.jsonMatch THEN "ValueError_NoJson"
    ELSE IF ~p.validJson \/ ~p.tripPlanStore \/ ~p.data \/ ~p.tripPlan
         THEN "ValueError_Parse"
    ELSE IF ~p.itinerary \/ ~p.budget THEN "KeyError"
    ELSE "ok"

----------------------------------------------------------------------------
(* create_kml *)

NoDateData == [k |-> "absent", s |-> EmptyStr]

\* the Placemark element of one place: name, Point coordinates (longitude
\* first) and the ExtendedData date when place['date'] is truthy
Placemark(place, show_dates) ==
    [name |-> IF show_dates /\ place.day_month # EmptyStr
              THEN <<"[">> \o place.day_month \o <<"]", " ">> \o place.name
              ELSE place.name,
     coordinates |-> <<place.lng, place.lat, 0>>,
     date |-> IF Truthy(place.date) THEN place.date ELSE NoDateData]

\* a Document whose placemarks come out in reverse order
Document_Reversed(ps, t, show_dates) ==
    [name |-> t,
     placemarks |-> [i \in DOMAIN ps |-> Placemark(ps[Len(ps) + 1 - i], show_dates)]]

\* the Document: its name and one Placemark per place, in the order of places
Document(ps, t, show_dates) ==
    [name |-> t,
     placemarks |-> [i \in DOMAIN ps |-> Placemark(ps[i], show_dates)]]

\* a write whose IOError is not caught
WriteResult_Raises(writeOk) == IF writeOk THEN "written" ELSE "raised"

\* how the write ends: the file is written, or the IOError is caught and printed
WriteResult(writeOk) == IF writeOk THEN "written" ELSE "reported"

\* one call of create_kml, as recorded in emissions
CreateKml(ps, filename, t, show_dates, writeOk) ==
    [path |-> filename, places |-> ps, show_dates |-> show_dates,
     doc |-> Document(ps, t, show_dates), result |-> WriteResult(writeOk)]

----------------------------------------------------------------------------
(* main: names and grouping *)

\* re.sub(r'[^\w-]', '_', args.output or title).lower()
BaseName(a, t) == Slug(IF a.output # EmptyStr THEN a.output ELSE t)

CombinedPath(a, t) ==
    PathJoin(OutDir, BaseName(a, t) \o <<"_","c","o","m","b","i","n","e","d",".","k","m","l">>)

\* place['date'] or 'no_date'
DateKey(place) == IF Truthy(place.date) THEN place.date.s ELSE NO_DATE

\* date.replace('-', '_') if date != 'no_date' else date
DateStr(date) == IF date # NO_DATE THEN Replace(date, "-", "_") ELSE date

SplitPath(a, t, date) ==
    PathJoin(OutDir, BaseName(a, t) \o <<"_">> \o DateStr(date) \o <<".","k","m","l">>)

SplitTitle(t, date) ==
    IF date # NO_DATE THEN t \o <<" ","-"," ">> \o date
    ELSE t \o <<" ","-"," ","N","o"," ","D","a","t","e">>

\* by_date[key].append(place) on a defaultdict(list) kept in insertion order
GroupAdd(groups, key, place) ==
    IF \E i \in DOMAIN groups : groups[i].key = key
    THEN [i \in DOMAIN groups |->
            IF groups[i].key = key
            THEN [groups[i] EXCEPT !.places = Append(@, place)]
            ELSE groups[i]]
    ELSE Append(groups, [key |-> key, places |-> <<place>>])

RECURSIVE GroupByDate(_, _)
\* the loop over places that fills by_date
GroupByDate(ps, groups) ==
    IF ps = << >> THEN groups
    ELSE GroupByDate(Tail(ps), GroupAdd(groups, DateKey(Head(ps)), Head(ps)))

----------------------------------------------------------------------------
(* main *)

NoArgOutput == EmptyStr

Init ==
    /\ pc = "outdir"
    /\ args \in [split : BOOLEAN, output : {NoArgOutput, OutputArg}]
    /\ payload = NoPayload
    /\ title = EmptyStr
    /\ block_to_date = {}
    /\ section = NoSection
    /\ block = NoBlock
    /\ appended = FALSE
    /\ places = << >>
    /\ origin = << >>
    /\ by_date = << >>
    /\ emissions = << >>
    /\ generated_files = << >>
    /\ console = << >>
    /\ outcome = "none"
    /\ nExpenses = 0
    /\ nSections = 0
    /\ nBlocks = 0

\* main returns after printing one line
Stop(line, how) ==
    /\ console' = Append(console, line)
    /\ outcome' = how
    /\ pc' = "done"

\* an exception no handler catches leaves main
Escape(how) ==
    /\ console' = console
    /\ outcome' = how
    /\ pc' = "done"

\* the except clause of main around extract_data catches ValueError only
MainCatches(exc) == exc \in {"ValueError_NoJson", "ValueError_Parse"}

\* os.path.exists / os.makedirs
MakeOutdir ==
    /\ pc = "outdir"
    /\ \E exists \in BOOLEAN, ok \in BOOLEAN :
         IF exists THEN /\ pc' = "read"
                        /\ UNCHANGED <<console, outcome>>
         ELSE IF ok THEN /\ pc' = "read"
                         /\ console' = Append(console, "created_dir")
                         /\ UNCHANGED outcome
         ELSE Stop("err_outdir", "OutputDirectoryFailure")
    /\ UNCHANGED <<args, payload, title, block_to_date, section, block, appended,
                   places, origin, by_date, emissions, generated_files,
                   nExpenses, nSections, nBlocks>>

\* open(args.input_file).read()
ReadInput ==
    /\ pc = "read"
    /\ \E ok \in BOOLEAN :
         IF ok THEN /\ pc' = "extract"
                    /\ UNCHANGED <<console, outcome>>
         ELSE Stop("err_read", "InputUnreadable")
    /\ UNCHANGED <<args, payload, title, block_to_date, section, block, appended,
                   places, origin, by_date, emissions, generated_files,
                   nExpenses, nSections, nBlocks>>

\* extract_data up to the expense loop, and main's handling of what it raises
ExtractStart ==
    /\ pc = "extract"
    /\ \E p \in Payloads :
         /\ payload' = p
         /\ title' = IF p.titleMatch THEN PageTitle ELSE DefaultTitle
         /\ IF ExtractHead(p) = "ok"
            THEN /\ pc' = "expenses"
                 /\ UNCHANGED <<console, outcome>>
            ELSE IF MainCatches(ExtractHead(p))
            THEN Stop("err_data",
                      IF ExtractHead(p) = "ValueError_NoJson"
                      THEN "MissingPayload" ELSE "InvalidPayload")
            ELSE Escape("UncaughtKeyError")
    /\ UNCHANGED <<args, block_to_date, section, block, appended, places, origin,
                   by_date, emissions, generated_files,
                   nExpenses, nSections, nBlocks>>

\* one iteration of the loop over budget.get('expenses', [])
AddExpense ==
    /\ pc = "expenses"
    /\ payload.expenses
    /\ nExpenses < MaxExpenses
    /\ \E e \in Expenses :
         block_to_date' =
            IF e.blockId # NoId /\ e.associatedDate.k # "absent"
            THEN DictSet(block_to_date, e.blockId, e.associatedDate)
            ELSE block_to_date
    /\ nExpenses' = nExpenses + 1
    /\ UNCHANGED <<pc, args, payload, title, section, block, appended, places,
                   origin, by_date, emissions, generated_files, console, outcome,
                   nSections, nBlocks>>

\* the expense loop ends; trip_plan['itinerary']['sections'] is read
EndExpenses ==
    /\ pc = "expenses"
    /\ IF payload.sections
       THEN /\ pc' = "sections"
            /\ UNCHANGED <<console, outcome>>
       ELSE Escape("UncaughtKeyError")
    /\ nExpenses' = 0
    /\ UNCHANGED <<args, payload, title, block_to_date, section, block, appended,
                   places, origin, by_date, emissions, generated_files,
                   nSections, nBlocks>>

\* the section loop takes the next section; one without 'blocks' is skipped
NextSection ==
    /\ pc = "sections"
    /\ nSections < MaxSections
    /\ \E sec \in Sections :
         /\ section' = sec
         /\ pc' = IF sec.hasBlocks THEN "blocks" ELSE "sections"
    /\ nSections' = nSections + 1
    /\ UNCHANGED <<args, payload, title, block_to_date, block, appended, places,
                   origin, by_date, emissions, generated_files, console, outcome,
                   nExpenses, nBlocks>>

\* one iteration of the block loop
ProcessBlock ==
    /\ pc = "blocks"
    /\ nBlocks < MaxBlocks
    /\ \E b \in Blocks :
         /\ block' = b
         /\ places' = AfterBlock(places, b, section, block_to_date)
    /\ appended' = (places' # places)
    /\ origin' = IF places' # places THEN Append(origin, nBlocks + 1) ELSE origin
    /\ nBlocks' = nBlocks + 1
    /\ UNCHANGED <<pc, args, payload, title, block_to_date, section, by_date,
                   emissions, generated_files, console, outcome,
                   nExpenses, nSections>>

\* the block loop of the current section ends
EndBlocks ==
    /\ pc = "blocks"
    /\ pc' = "sections"
    /\ block' = NoBlock
    /\ appended' = FALSE
    /\ UNCHANGED <<args, payload, title, block_to_date, section, places, origin,
                   by_date, emissions, generated_files, console, outcome,
                   nExpenses, nSections, nBlocks>>

\* main without the `if not places: return`
CheckPlaces_AlwaysEmit(ps) == "emit"

\* what main does with the places extract_data returned
CheckPlaces(ps) == IF ps = << >> THEN "stop" ELSE "emit"

\* extract_data returns and its locals (the decoded payload, the table, the
\* loop variables) are gone; main tests `not places`
EndSections ==
    /\ pc = "sections"
    /\ IF CheckPlaces(places) = "stop"
       THEN Stop("no_places", "NoRecordsFound")
       ELSE /\ pc' = "combined"
            /\ UNCHANGED <<console, outcome>>
    /\ payload' = NoPayload
    /\ block_to_date' = {}
    /\ section' = NoSection
    /\ nSections' = 0
    /\ nBlocks' = 0
    /\ UNCHANGED <<args, title, block, appended, places, origin,
                   by_date, emissions, generated_files, nExpenses>>

\* the lines create_kml and main print for one emission
EmissionLines(e) ==
    IF e.result = "reported" THEN <<"err_write", "created">> ELSE <<"created">>

\* create_kml(places, combined_path, title, show_dates=True)
EmitCombined ==
    /\ pc = "combined"
    /\ \E writeOk \in BOOLEAN :
         LET e == CreateKml(places, CombinedPath(args, title), title, TRUE, writeOk)
         IN  /\ emissions' = Append(emissions, e)
             /\ IF e.result = "raised"
                THEN /\ Escape("UncaughtIOError")
                     /\ UNCHANGED generated_files
                ELSE /\ console' = console \o EmissionLines(e)
                     /\ generated_files' = <<e.path>>
                     /\ pc' = "group"
                     /\ UNCHANGED outcome
    /\ UNCHANGED <<args, payload, title, block_to_date, section, block, appended,
                   places, origin, by_date, nExpenses, nSections, nBlocks>>

\* if args.split: fill by_date
Group ==
    /\ pc = "group"
    /\ IF args.split
       THEN /\ by_date' = GroupByDate(places, << >>)
            /\ pc' = "split"
       ELSE /\ by_date' = by_date
            /\ pc' = "summary"
    /\ UNCHANGED <<args, payload, title, block_to_date, section, block, appended,
                   places, origin, emissions, generated_files, console, outcome,
                   nExpenses, nSections, nBlocks>>

\* one iteration of the loop over by_date.items()
EmitSplit ==
    /\ pc = "split"
    /\ Len(generated_files) <= Len(by_date)
    /\ \E writeOk \in BOOLEAN :
         LET g == by_date[Len(generated_files)]
             e == CreateKml(g.places, SplitPath(args, title, g.key),
                            SplitTitle(title, g.key), FALSE, writeOk)
         IN  /\ emissions' = Append(emissions, e)
             /\ IF e.result = "raised"
                THEN /\ Escape("UncaughtIOError")
                     /\ UNCHANGED generated_files
                ELSE /\ console' = console \o EmissionLines(e)
                     /\ generated_files' = Append(generated_files, e.path)
                     /\ pc' = IF Len(generated_files) = Len(by_date)
                              THEN "summary" ELSE "split"
                     /\ UNCHANGED outcome
    /\ UNCHANGED <<args, payload, title, block_to_date, section, block, appended,
                   places, origin, by_date, nExpenses, nSections, nBlocks>>

\* the summary is printed and main returns
Summary ==
    /\ pc = "summary"
    /\ Stop("summary", "Summary")
    /\ UNCHANGED <<args, payload, title, block_to_date, section, block, appended,
                   places, origin, by_date, emissions, generated_files,
                   nExpenses, nSections, nBlocks>>

Next ==
    \/ MakeOutdir
    \/ ReadInput
    \/ ExtractStart
    \/ AddExpense
    \/ EndExpenses
    \/ NextSection
    \/ ProcessBlock
    \/ EndBlocks
    \/ EndSections
    \/ EmitCombined
    \/ Group
    \/ EmitSplit
    \/ Summary

Spec == Init /\ [][Next]_vars

----------------------------------------------------------------------------
(* Files on disk, as the emissions leave them *)

Written(i) == emissions[i].result = "written"

\* the emission whose bytes the file at path holds: the last one written there
LastWrite(path) ==
    CHOOSE i \in DOMAIN emissions :
        /\ emissions[i].path = path /\ Written(i)
        /\ \A j \in DOMAIN emissions :
             (emissions[j].path = path /\ Written(j)) => j <= i

\* the places whose placemarks the file at path holds
FilePlaces(path) == emissions[LastWrite(path)].places

Count(x, seq) == Cardinality({i \in DOMAIN seq : seq[i] = x})

Range(seq) == {seq[i] : i \in DOMAIN seq}

RECURSIVE SumOver(_, _)
\* the number of occurrences of x in the files at the paths of the set ps
SumOver(x, ps) ==
    IF ps = {} THEN 0
    ELSE LET q == CHOOSE q \in ps : TRUE
         IN  Count(x, FilePlaces(q)) + SumOver(x, ps \ {q})

SplitIndexes == {i \in DOMAIN emissions : i >= 2}
SplitPaths == {emissions[i].path : i \in SplitIndexes}

RunSucceeded == pc = "done" /\ outcome = "Summary"
AllWritten == \A i \in DOMAIN emissions : Written(i)

----------------------------------------------------------------------------
(* Grouping *)

RECURSIVE Flatten(_)
Flatten(groups) ==
    IF groups = << >> THEN << >>
    ELSE Head(groups).places \o Flatten(Tail(groups))

EmptyDated(place) == ~Truthy(place.date)

\* by_date, once filled, holds every place exactly once, each under its own
\* key, and every key once
GroupsPartitionPlaces ==
    (pc \in {"split", "summary"} /\ args.split) =>
        /\ \A r \in Range(places) \cup Range(Flatten(by_date)) :
             Count(r, places) = Count(r, Flatten(by_date))
        /\ \A i \in DOMAIN by_date : \A j \in DOMAIN by_date[i].places :
             DateKey(by_date[i].places[j]) = by_date[i].key
        /\ \A i, j \in DOMAIN by_date : by_date[i].key = by_date[j].key => i = j

\* C1: with date-splitting requested, the records across all split-by-date
\* files are exactly the records of the combined file (same multiset), and
\* every record with an empty date is in the "no_date" file and in no other
C1_SplitFilesHoldCombinedRecords ==
    (RunSucceeded /\ args.split /\ AllWritten) =>
        /\ \A r \in Range(places) :
             SumOver(r, SplitPaths) = Count(r, FilePlaces(emissions[1].path))
        /\ \A q \in SplitPaths : \A r \in Range(FilePlaces(q)) :
             EmptyDated(r) <=> q = SplitPath(args, title, NO_DATE)

----------------------------------------------------------------------------
(* Emission only after a successful extraction *)

\* C2: no emission happens unless extraction succeeded with at least one
\* record; a run that ends with MissingPayload, InvalidPayload or
\* NoRecordsFound has performed no emission
C2_NoEmissionBeforeRecords ==
    /\ (emissions # << >> \/ generated_files # << >>) =>
          /\ places # << >>
          /\ pc \in {"group", "split", "summary", "done"}
          /\ outcome \in {"none", "Summary"}
    /\ outcome \in {"MissingPayload", "InvalidPayload", "NoRecordsFound"} =>
          emissions = << >> /\ generated_files = << >>

C2_Witness ==
    /\ pc = "done"
    /\ outcome = "NoRecordsFound"
    /\ emissions = << >>

----------------------------------------------------------------------------
(* Coordinates *)

InRange(x, lo, hi) == x.k = "num" /\ lo <= x.v /\ x.v <= hi

\* C3: every record returned by the extractor, and every emitted placemark,
\* has a finite latitude in [-90, 90] and a finite longitude in [-180, 180]
C3_CoordinatesInRange ==
    /\ \A i \in DOMAIN places :
         InRange(places[i].lat, -90, 90) /\ InRange(places[i].lng, -180, 180)
    /\ \A e \in DOMAIN emissions : \A i \in DOMAIN emissions[e].doc.placemarks :
         LET c == emissions[e].doc.placemarks[i].coordinates
         IN  InRange(c[2], -90, 90) /\ InRange(c[1], -180, 180)

----------------------------------------------------------------------------
(* Order of records and placemarks *)

\* s ends with t
EndsWith(s, t) ==
    Len(t) <= Len(s) /\ SubSeq(s, Len(s) - Len(t) + 1, Len(s)) = t

\* C4: the combined document holds exactly one placemark per record, in the
\* order of the records, and the records are in the order in which the
\* section and block loops met their blocks
C4_PlacemarksInTraversalOrder ==
    /\ Len(origin) = Len(places)
    /\ \A i, j \in DOMAIN origin : i < j => origin[i] < origin[j]
    /\ (pc = "blocks" /\ appended) =>
          /\ origin[Len(origin)] = nBlocks
          /\ places[Len(places)].name = block.name
          /\ places[Len(places)].lat = block.lat
          /\ places[Len(places)].lng = block.lng
    /\ emissions # << >> =>
          LET pms == emissions[1].doc.placemarks
          IN  /\ Len(pms) = Len(places)
              /\ \A i \in DOMAIN places :
                   /\ pms[i].coordinates = <<places[i].lng, places[i].lat, 0>>
                   /\ EndsWith(pms[i].name, places[i].name)
                   /\ pms[i].date.s = places[i].date.s

C4_Witness ==
    /\ emissions # << >>
    /\ Len(places) >= 2
    /\ places[1] # places[2]
    /\ Len(emissions[1].doc.placemarks) = 2

----------------------------------------------------------------------------
(* Write failures *)

Failed(i) == emissions[i].result = "reported"

DateKeys == {DateKey(places[i]) : i \in DOMAIN places}

\* C5: a write failure is reported and isolated: it never ends the run, and
\* a run that reached its summary has attempted the combined emission and
\* one emission per date group, whichever of them failed
C5_WriteFailureIsolated ==
    /\ (\E i \in DOMAIN emissions : ~Written(i)) =>
          /\ outcome \in {"none", "Summary"}
          /\ \A i \in DOMAIN emissions : ~Written(i) => Failed(i)
    /\ Count("err_write", console) = Cardinality({i \in DOMAIN emissions : ~Written(i)})
    /\ (pc = "done" /\ emissions # << >>) =>
          /\ outcome = "Summary"
          /\ Len(emissions) = 1 + (IF args.split THEN Cardinality(DateKeys) ELSE 0)
          /\ Len(generated_files) = Len(emissions)

C5_Witness ==
    /\ RunSucceeded
    /\ Len(emissions) >= 3
    /\ Failed(1)
    /\ Failed(2)
    /\ Written(3)

----------------------------------------------------------------------------
(* Fatal extraction conditions *)

\* the page has no assignment, or its object does not parse, or a key the
\* extractor subscripts without a default is missing
FatalExtraction(p) ==
    \/ ~p.jsonMatch
    \/ ~p.validJson
    \/ ~p.tripPlanStore \/ ~p.data \/ ~p.tripPlan
    \/ ~p.itinerary \/ ~p.sections

\* C6: every fatal extraction condition (no payload assignment, invalid
\* JSON, a missing required nested key) ends the run as MissingPayload or
\* InvalidPayload with a single diagnostic line, and no exception escapes
C6_FatalConditionsAreCaught ==
    (payload.loaded /\ FatalExtraction(payload) /\ pc = "done") =>
        /\ outcome \in {"MissingPayload", "InvalidPayload"}
        /\ Count("err_data", console) = 1

\* the trip plan is well formed but for budget.expenses: the expenses key,
\* or the budget object that would hold it, is absent
WellFormedWithoutExpenses(p) ==
    /\ p.loaded
    /\ p.jsonMatch /\ p.validJson
    /\ p.tripPlanStore /\ p.data /\ p.tripPlan
    /\ p.itinerary /\ p.sections
    /\ ~p.expenses

\* C7: a payload that is well formed but has no budget.expenses sequence
\* does not fail extraction: the table is empty and records are collected
\* with the dates of their sections
C7_MissingExpensesTolerated ==
    WellFormedWithoutExpenses(payload) =>
        /\ pc \in {"expenses", "sections", "blocks"}
        /\ outcome = "none"
        /\ block_to_date = {}
        /\ (pc = "blocks" /\ appended) =>
              places[Len(places)].date = SectionDate(section)

----------------------------------------------------------------------------
(* Effective date *)

\* C8: the date of the record of a qualifying block is the table's entry for
\* the block's id when there is one, otherwise the section's date when the
\* section has one, otherwise the empty string, and nothing else
C8_EffectiveDate ==
    (pc = "blocks" /\ appended) =>
        LET date == places[Len(places)].date
        IN  IF \E e \in block_to_date : e[1] = block.id
            THEN <<block.id, date>> \in block_to_date
            ELSE IF section.date.k # "absent"
            THEN date = section.date
            ELSE date = Str(EmptyStr)

C8_Witness ==
    /\ pc = "blocks"
    /\ appended
    /\ \E e \in block_to_date : e[1] = block.id
    /\ section.date.k = "str"
    /\ places[Len(places)].date # section.date

----------------------------------------------------------------------------
(* Dropped blocks *)

LacksNameOrCoordinates(b) ==
    \/ b.name = NoName
    \/ ~b.hasGeometry
    \/ b.lat.k = "str"
    \/ b.lng.k = "str"

\* C9 as stated: a qualifying block is dropped if and only if it lacks the
\* name, lacks the geometry.location.lat/lng path, or has a non-numeric
\* latitude or longitude
C9_DroppedIffNameOrCoordinates ==
    (pc = "blocks" /\ Qualifies(block)) =>
        (~appended <=> LacksNameOrCoordinates(block))

\* the block's effective date is truthy and cannot be sliced
UnsliceableDate(b, sec, tbl) ==
    LET date == IF \E e \in tbl : e[1] = b.id
                THEN (CHOOSE e \in tbl : e[1] = b.id)[2]
                ELSE sec.date
    IN  date.k = "num"

DroppedAsAmended ==
    (pc = "blocks" /\ Qualifies(block)) =>
        (~appended <=> \/ block.id = NoId
                       \/ UnsliceableDate(block, section, block_to_date)
                       \/ LacksNameOrCoordinates(block))

\* one iteration of the block loop leaves places as it was or adds one
\* record at its end, and never ends the run
OneRecordPerBlock ==
    (pc = "blocks" /\ pc' = "blocks") =>
        /\ outcome' = "none"
        /\ IF appended'
           THEN /\ Len(places') = Len(places) + 1
                /\ SubSeq(places', 1, Len(places)) = places
                /\ Qualifies(block')
           ELSE places' = places

\* C9 as amended: a qualifying block is dropped if and only if it lacks the
\* id, has an effective date that cannot be sliced, lacks the name, lacks the
\* geometry.location.lat/lng path, or has a latitude or longitude that is
\* not an int or float; every other qualifying block adds exactly one
\* record, and no iteration ends the run or changes the earlier records
C9_DroppedIffMalformed == []DroppedAsAmended /\ [][OneRecordPerBlock]_vars

C9_Witness ==
    /\ pc = "blocks"
    /\ Qualifies(block)
    /\ ~appended
    /\ block.id = NoId
    /\ ~LacksNameOrCoordinates(block)
    /\ Len(places) >= 1

----------------------------------------------------------------------------
(* Output paths *)

\* C10: with date-splitting requested, the paths of the emissions of one run
\* are pairwise distinct: no emission overwrites a file of an earlier one
C10_PathsPairwiseDistinct ==
    args.split =>
        \A i, j \in DOMAIN emissions :
            emissions[i].path = emissions[j].path => i = j

====
